---------------------------- MODULE Spec2Model ----------------------------
(***************************************************************************)
(* The session engine of interactive-board (server, physics-bearing        *)
(* variant: src/unnamed/part_000 lines 276-1021): the registry of          *)
(* sessions, the roster of each session, the socket-to-session map, the    *)
(* socket.io room subscriptions, the board elements of each session, the   *)
(* per-session game loop (ball physics, collisions, goals), the respawn    *)
(* timeouts and the hourly cleanup.                                        *)
(*                                                                         *)
(* Lengths and velocities are fixed-point integers, Unit steps per canvas  *)
(* pixel, so that 0.98, 0.8, 0.05, 0.1 and 0.5 are exact ratios; a         *)
(* quotient is truncated toward zero.  Times are milliseconds.             *)
(***************************************************************************)
EXTENDS Integers, Sequences, FiniteSets, TLC

(* ------------------------- program constants -------------------------- *)
MAX_USERS_PER_SESSION == 10
BALL_RADIUS == 20
CURSOR_RADIUS == 15
BALL_SPEED_LIMIT == 15
FRICTION_PCT == 98
RESTITUTION_PCT == 80
REPULSION_PCT == 50
GOAL_WIDTH == 100
GOAL_HEIGHT == 150
CANVAS_W == 1920
CANVAS_H == 1080
CENTER_X == 960
CENTER_Y == 540
SESSION_TTL == 24 * 60 * 60 * 1000

(* ------------------------------ bounds -------------------------------- *)
MaxSockets == 2
MaxSessions == 2
MaxTicks == 1
MaxClock == 2
MaxPending == 2
GoalTicks == 62
CrowdSockets == 11
MaxElements == 2
WallTicks == 40
MaxHeld == 3

(* --------------------------- fixed point ------------------------------ *)
Unit == 10 * 10
ClockStep == SESSION_TTL
NULL == 0

Abs(n) == IF n < 0 THEN -n ELSE n
Min(a, b) == IF a < b THEN a ELSE b
Max(a, b) == IF a > b THEN a ELSE b

\* a / b truncated toward zero, b > 0
QuoT(a, b) == IF a >= 0 THEN a \div b ELSE -((-a) \div b)

RECURSIVE SqrtSearch(_, _, _)
SqrtSearch(n, lo, hi) ==
  IF lo >= hi THEN lo
  ELSE LET mid == (lo + hi + 1) \div 2
       IN IF mid * mid <= n THEN SqrtSearch(n, mid, hi)
                            ELSE SqrtSearch(n, lo, mid - 1)

\* floor of Math.sqrt(n), 0 <= n < 46340 * 46340
Sqrt(n) == SqrtSearch(n, 0, 46340)

\* Math.max(0, Math.min(limit, v)) on pixels, result in fixed point
Clamp(v, limit) == Max(0, Min(limit * Unit, v))

\* Math.sqrt(dx*dx + dy*dy) when it can be below `reach', else `reach'
Distance(dx, dy, reach) ==
  IF Abs(dx) >= reach \/ Abs(dy) >= reach THEN reach
  ELSE Sqrt(dx * dx + dy * dy)

\* Math.cos(Math.atan2(dy, dx)) * m  and  Math.sin(Math.atan2(dy, dx)) * m;
\* atan2(0, 0) is 0
CosTimes(dx, dy, dist, m) == IF dist = 0 THEN m ELSE QuoT(dx * m, dist)
SinTimes(dx, dy, dist, m) == IF dist = 0 THEN 0 ELSE QuoT(dy * m, dist)

(* ------------------------------ physics ------------------------------- *)
NewBall ==
  [x |-> CENTER_X * Unit, y |-> CENTER_Y * Unit, radius |-> BALL_RADIUS * Unit,
   velocityX |-> 0, velocityY |-> 0, lastTouchedBy |-> NULL]

leftGoal ==
  [side |-> "left", x |-> 0, y |-> CENTER_Y * Unit - (GOAL_HEIGHT * Unit) \div 2,
   width |-> GOAL_WIDTH * Unit, height |-> GOAL_HEIGHT * Unit]

rightGoal ==
  [side |-> "right", x |-> (CANVAS_W - GOAL_WIDTH) * Unit,
   y |-> CENTER_Y * Unit - (GOAL_HEIGHT * Unit) \div 2,
   width |-> GOAL_WIDTH * Unit, height |-> GOAL_HEIGHT * Unit]

goals == <<leftGoal, rightGoal>>

\* velocity *= FRICTION; a component below 0.1 becomes 0
Slowed(v) ==
  LET f == QuoT(v * FRICTION_PCT, 100)
  IN IF Abs(f) * 10 < Unit THEN 0 ELSE f

\* the speed limit of updateBallPhysics: uniform rescaling above the limit
Limited(vx, vy) ==
  LET lim == BALL_SPEED_LIMIT * Unit
      sq == vx * vx + vy * vy
  IN IF sq > lim * lim
     THEN LET speed == Sqrt(sq)
          IN <<QuoT(vx * lim, speed), QuoT(vy * lim, speed)>>
     ELSE <<vx, vy>>

\* Bounce without the test of the high edge
BounceLowEdgeOnly(p, v, r, limit) ==
  IF p - r < 0 THEN <<r, QuoT(-v * RESTITUTION_PCT, 100)>> ELSE <<p, v>>

\* one axis of the wall test: the low edge first, then the high edge
Bounce(p, v, r, limit) ==
  LET p1 == IF p - r < 0 THEN r ELSE p
      v1 == IF p - r < 0 THEN QuoT(-v * RESTITUTION_PCT, 100) ELSE v
      p2 == IF p1 + r > limit * Unit THEN limit * Unit - r ELSE p1
      v2 == IF p1 + r > limit * Unit THEN QuoT(-v1 * RESTITUTION_PCT, 100) ELSE v1
  IN <<p2, v2>>

updateBallPhysics(ball) ==
  LET lv == Limited(Slowed(ball.velocityX), Slowed(ball.velocityY))
      bx == Bounce(ball.x + lv[1], lv[1], ball.radius, CANVAS_W)
      by == Bounce(ball.y + lv[2], lv[2], ball.radius, CANVAS_H)
  IN [ball EXCEPT !.x = bx[1], !.velocityX = bx[2],
                  !.y = by[1], !.velocityY = by[2]]

\* the kick one cursor gives the ball (the body of the loop)
Kick(ball, user) ==
  LET reach == ball.radius + CURSOR_RADIUS * Unit
      dx == ball.x - user.x
      dy == ball.y - user.y
      distance == Distance(dx, dy, reach)
      overlap == reach - distance
      \* force * BALL_SPEED_LIMIT, force = min(overlap * 0.05, 1.5)
      push == Min(QuoT(overlap * 5 * BALL_SPEED_LIMIT, 100),
                  QuoT(15 * BALL_SPEED_LIMIT * Unit, 10))
  IN IF user.userType = "display" \/ distance >= reach THEN ball
     ELSE [ball EXCEPT !.lastTouchedBy = user.id,
                       !.velocityX = CosTimes(dx, dy, distance, push),
                       !.velocityY = SinTimes(dx, dy, distance, push)]

RECURSIVE KickFromFirstWins(_, _, _)
\* KickFrom that lets the earliest cursor of the roster have the last word
KickFromFirstWins(ball, roster, i) ==
  IF i > Len(roster) THEN ball
  ELSE Kick(KickFromFirstWins(ball, roster, i + 1), roster[i])

RECURSIVE KickFrom(_, _, _)
\* the loop over session.users, from entry i on
KickFrom(ball, roster, i) ==
  IF i > Len(roster) THEN ball
  ELSE KickFrom(Kick(ball, roster[i]), roster, i + 1)

checkBallCursorCollisions(ball, roster) == KickFrom(ball, roster, 1)

\* the offset cursor j adds to cursor i
Repulsion(u1, u2) ==
  LET reach == CURSOR_RADIUS * 2 * Unit
      dx == u1.x - u2.x
      dy == u1.y - u2.y
      distance == Distance(dx, dy, reach)
      \* CURSOR_REPULSION_FORCE * (1 - distance / (CURSOR_RADIUS * 2))
      force == QuoT(REPULSION_PCT * Unit * (reach - distance), 100 * reach)
  IN IF u2.userType = "display" \/ distance >= reach THEN <<0, 0>>
     ELSE <<CosTimes(dx, dy, distance, force), SinTimes(dx, dy, distance, force)>>

RECURSIVE OffsetFrom(_, _, _)
OffsetFrom(roster, i, j) ==
  IF j > Len(roster) THEN <<0, 0>>
  ELSE LET rest == OffsetFrom(roster, i, j + 1)
           one == IF i = j THEN <<0, 0>> ELSE Repulsion(roster[i], roster[j])
       IN <<one[1] + rest[1], one[2] + rest[2]>>

\* the net offset of cursor i; a display is skipped
Offset(roster, i) ==
  IF roster[i].userType = "display" THEN <<0, 0>> ELSE OffsetFrom(roster, i, 1)

Moved(roster, i) == Offset(roster, i) # <<0, 0>>

\* checkCursorCollisions without the clamp of the new positions
checkCursorCollisionsUnclamped(roster) ==
  [i \in 1..Len(roster) |->
     IF Moved(roster, i)
     THEN [roster[i] EXCEPT !.x = roster[i].x + Offset(roster, i)[1],
                            !.y = roster[i].y + Offset(roster, i)[2]]
     ELSE roster[i]]

\* the roster after checkCursorCollisions
checkCursorCollisions(roster) ==
  [i \in 1..Len(roster) |->
     IF Moved(roster, i)
     THEN [roster[i] EXCEPT !.x = Clamp(roster[i].x + Offset(roster, i)[1], CANVAS_W),
                            !.y = Clamp(roster[i].y + Offset(roster, i)[2], CANVAS_H)]
     ELSE roster[i]]

\* the ball's circle against a goal rectangle
InGoal(ball, goal) ==
  /\ ball.x - ball.radius < goal.x + goal.width
  /\ ball.x + ball.radius > goal.x
  /\ ball.y - ball.radius < goal.y + goal.height
  /\ ball.y + ball.radius > goal.y

\* the first goal the ball is in: 0 when in none
GoalHit(ball) ==
  IF InGoal(ball, goals[1]) THEN 1 ELSE IF InGoal(ball, goals[2]) THEN 2 ELSE 0


(* ------------------------------- state -------------------------------- *)
VARIABLES
  sessions,      \* the sessions Map: session id -> session
  users,         \* the users Map: socket id -> session id
  rooms,         \* socket.io rooms: connected socket id -> session ids joined
  nextSocket,    \* the id the next connection gets
  nextSession,   \* the id the next session gets (uuidv4: never reused)
  intervals,     \* session ids whose game loop setInterval is active
  timeouts,      \* session id -> pending respawn setTimeouts
  now,           \* Date.now()
  ticks,         \* game loop firings so far
  nextElement,   \* the id the next board element gets (uuidv4: never reused)
  emitted,       \* the events the last step emitted, in order
  fired,         \* the handler or timer the last step ran
  display        \* socket id -> the ids of the users state of its MainDisplay

vars == <<sessions, users, rooms, nextSocket, nextSession, intervals, timeouts,
          now, ticks, nextElement, emitted, fired, display>>

UserTypes == {"display", "controller"}

Put(f, k, v) == [x \in DOMAIN f \cup {k} |-> IF x = k THEN v ELSE f[x]]
Drop(f, k) == [x \in DOMAIN f \ {k} |-> f[x]]

Number(v) == [typeof |-> "number", val |-> v]
NotNumber == [typeof |-> "string", val |-> 0]

RECURSIVE Without(_, _)
\* users.filter(u => u.id !== id)
Without(roster, id) ==
  IF roster = <<>> THEN <<>>
  ELSE IF Head(roster).id = id THEN Without(Tail(roster), id)
       ELSE <<Head(roster)>> \o Without(Tail(roster), id)

\* users.findIndex(u => u.id === id), 0 for -1
FindIndex(roster, id) ==
  IF \E i \in 1..Len(roster) : roster[i].id = id
  THEN CHOOSE i \in 1..Len(roster) :
         roster[i].id = id /\ \A j \in 1..(i - 1) : roster[j].id # id
  ELSE 0

Ids(roster) == {roster[i].id : i \in 1..Len(roster)}

Pending(sid) == IF sid \in DOMAIN timeouts THEN timeouts[sid] ELSE 0

\* the sockets an emit to the room reaches
InRoom(sid) == {s \in DOMAIN rooms : sid \in rooms[s]}

Msg(ev, to, arg) == [ev |-> ev, to |-> to, arg |-> arg]
Step(type, socket, sid) == [type |-> type, socket |-> socket, sid |-> sid]

Init ==
  /\ sessions = [x \in {} |-> 0]
  /\ users = [x \in {} |-> 0]
  /\ rooms = [x \in {} |-> {}]
  /\ nextSocket = 1
  /\ nextSession = 1
  /\ intervals = {}
  /\ timeouts = [x \in {} |-> 0]
  /\ now = 0
  /\ ticks = 0
  /\ nextElement = 1
  /\ emitted = <<>>
  /\ fired = Step("listen", NULL, NULL)
  /\ display = [x \in {} |-> <<>>]

(* ----------------------------- HTTP, clock ---------------------------- *)
NewSession ==
  [lastActivity |-> now, users |-> <<>>, elements |-> <<>>,
   maxUsers |-> MAX_USERS_PER_SESSION,
   ball |-> NewBall, scores |-> [x \in {} |-> 0],
   gameState |-> [inPlay |-> TRUE, lastGoal |-> "none"]]

\* POST /api/sessions up to its await: the session is registered and its
\* game loop started
CreateSession(limit) ==
  /\ nextSession <= limit
  /\ sessions' = Put(sessions, nextSession, NewSession)
  /\ intervals' = intervals \cup {nextSession}
  /\ nextSession' = nextSession + 1
  /\ emitted' = <<>>
  /\ fired' = Step("create", NULL, nextSession)
  /\ UNCHANGED <<display, users, rooms, nextSocket, timeouts, now, ticks, nextElement>>

\* POST /api/sessions when QRCode.toDataURL rejects: the catch answers 500
\* after the session was registered and its game loop started
CreateSessionFailed(limit) ==
  /\ nextSession <= limit
  /\ sessions' = Put(sessions, nextSession, NewSession)
  /\ intervals' = intervals \cup {nextSession}
  /\ nextSession' = nextSession + 1
  /\ emitted' = <<>>
  /\ fired' = Step("create-failed", NULL, nextSession)
  /\ UNCHANGED <<display, users, rooms, nextSocket, timeouts, now, ticks, nextElement>>

\* time passes between two steps
AdvanceClock ==
  /\ now < MaxClock * ClockStep
  /\ now' = now + ClockStep
  /\ emitted' = <<>>
  /\ fired' = Step("clock", NULL, NULL)
  /\ UNCHANGED <<display, sessions, users, rooms, nextSocket, nextSession, intervals,
                 timeouts, ticks, nextElement>>

\* Expired with the comparison off by one
ExpiredAtTTL(session, t) == t - session.lastActivity >= SESSION_TTL

\* the test of the cleanup interval
Expired(session, t) == t - session.lastActivity > SESSION_TTL

\* the hourly session cleanup
Cleanup ==
  /\ sessions' = [sid \in {x \in DOMAIN sessions : ~Expired(sessions[x], now)}
                    |-> sessions[sid]]
  /\ emitted' = <<>>
  /\ fired' = Step("cleanup", NULL, NULL)
  /\ UNCHANGED <<display, users, rooms, nextSocket, nextSession, intervals, timeouts,
                 now, ticks, nextElement>>

(* ------------------------------ sockets ------------------------------- *)
\* io.on('connection')
Connect(limit) ==
  /\ nextSocket <= limit
  /\ rooms' = Put(rooms, nextSocket, {})
  /\ nextSocket' = nextSocket + 1
  /\ emitted' = <<>>
  /\ fired' = Step("connection", nextSocket, NULL)
  /\ UNCHANGED <<display, sessions, users, nextSession, intervals, timeouts, now, ticks,
                 nextElement>>

\* JoinUnknown with socket.join(sessionId) done before the validation
JoinUnknownSubscribes(s, sid) ==
  /\ emitted' = <<Msg("error", {s}, <<>>)>>
  /\ rooms' = [rooms EXCEPT ![s] = @ \cup {sid}]
  /\ UNCHANGED <<sessions, users>>

\* join-session, the session is not in the Map
JoinUnknown(s, sid) ==
  /\ emitted' = <<Msg("error", {s}, <<>>)>>
  /\ UNCHANGED <<sessions, users, rooms>>

\* the palette of join-session
colors ==
  <<"#FF5252", "#4CAF50", "#2196F3", "#FFC107", "#9C27B0", "#00BCD4", "#FF9800",
    "#673AB7", "#795548", "#009688">>

\* the values Math.floor(Math.random() * colors.length) can take
Draws == 0..(Len(colors) - 1)

NewUser(s, userType, color) ==
  [id |-> s, userType |-> userType, color |-> color,
   x |-> CENTER_X * Unit, y |-> CENTER_Y * Unit, lastUpdate |-> now]

\* Joined that pushes without looking for an entry of the same socket
JoinedWithoutSplice(roster, s, userType, color) ==
  Append(roster, NewUser(s, userType, color))

\* the roster of the session after the join: an entry of the same socket
\* is spliced out, the new one pushed
Joined(roster, s, userType, color) ==
  LET i == FindIndex(roster, s)
      kept == IF i = 0 THEN roster
              ELSE SubSeq(roster, 1, i - 1) \o SubSeq(roster, i + 1, Len(roster))
  IN Append(kept, NewUser(s, userType, color))

\* the payload of session-joined
SessionJoined(sid, roster, user) ==
  [session |-> [id |-> sid, users |-> Len(roster)], users |-> roster,
   elements |-> sessions[sid].elements, user |-> user]

\* JoinKnown that announces the user with io.to(sessionId)
JoinKnownToldToAll(s, sid, userType, color) ==
  LET roster == Joined(sessions[sid].users, s, userType, color)
      user == NewUser(s, userType, color)
  IN /\ sessions' = [sessions EXCEPT ![sid].users = roster]
     /\ users' = Put(Drop(users, s), s, sid)
     /\ rooms' = [rooms EXCEPT ![s] = @ \cup {sid}]
     /\ emitted' = <<Msg("session-joined", {s}, SessionJoined(sid, roster, user)),
                     Msg("user-joined", InRoom(sid) \cup {s}, user)>>

\* JoinKnown that takes the snapshot for session-joined before the push
JoinKnownSnapshotBeforePush(s, sid, userType, color) ==
  LET roster == Joined(sessions[sid].users, s, userType, color)
      user == NewUser(s, userType, color)
  IN /\ sessions' = [sessions EXCEPT ![sid].users = roster]
     /\ users' = Put(Drop(users, s), s, sid)
     /\ rooms' = [rooms EXCEPT ![s] = @ \cup {sid}]
     /\ emitted' = <<Msg("session-joined", {s},
                         SessionJoined(sid, SubSeq(roster, 1, Len(roster) - 1), user)),
                     Msg("user-joined", InRoom(sid) \ {s}, user)>>

\* join-session, the session is in the Map
JoinKnown(s, sid, userType, color) ==
  LET roster == Joined(sessions[sid].users, s, userType, color)
      user == NewUser(s, userType, color)
  IN /\ sessions' = [sessions EXCEPT ![sid].users = roster]
     /\ users' = Put(Drop(users, s), s, sid)
     /\ rooms' = [rooms EXCEPT ![s] = @ \cup {sid}]
     /\ emitted' = <<Msg("session-joined", {s}, SessionJoined(sid, roster, user)),
                     Msg("user-joined", InRoom(sid) \ {s}, user)>>

\* join-session with payload {sessionId, userType} when
\* Math.floor(Math.random() * colors.length) is random
JoinSessionDrawing(s, sid, userType, random) ==
  /\ s \in DOMAIN rooms
  /\ IF sid \in DOMAIN sessions THEN JoinKnown(s, sid, userType, colors[random + 1])
     ELSE JoinUnknown(s, sid)
  /\ fired' = Step("join-session", s, sid)
  /\ UNCHANGED <<display, nextSocket, nextSession, intervals, timeouts, now, ticks, nextElement>>

\* join-session when the draw is 0
JoinSession(s, sid, userType) == JoinSessionDrawing(s, sid, userType, 0)

\* Ignored by a handler that stamps lastActivity before it validates
IgnoredButStamped ==
  /\ emitted' = <<>>
  /\ sessions' = [sid \in DOMAIN sessions |-> [sessions[sid] EXCEPT !.lastActivity = now]]

\* a handler returns before it changes or emits anything
Ignored == emitted' = <<>> /\ UNCHANGED sessions

\* users.get(socket.id) and sessions.get(sessionId) both find something
Associated(s) == s \in DOMAIN users /\ users[s] \in DOMAIN sessions

\* MoveCursor whose threshold is met by a move of exactly one pixel
MoveCursorFromThreshold(s, sid, x, y) ==
  LET session == sessions[sid]
      userIndex == FindIndex(session.users, s)
      sanitizedX == Clamp(x, CANVAS_W)
      sanitizedY == Clamp(y, CANVAS_H)
      prevX == session.users[userIndex].x
      prevY == session.users[userIndex].y
      movementThreshold == 1 * Unit
  IN IF userIndex # 0
     THEN IF \/ Abs(sanitizedX - prevX) >= movementThreshold
             \/ Abs(sanitizedY - prevY) >= movementThreshold
          THEN /\ sessions' = [sessions EXCEPT
                    ![sid].users[userIndex].x = sanitizedX,
                    ![sid].users[userIndex].y = sanitizedY,
                    ![sid].users[userIndex].lastUpdate = now,
                    ![sid].lastActivity = now]
               /\ emitted' = <<Msg("cursor-updated", InRoom(sid),
                                   <<s, sanitizedX, sanitizedY>>)>>
          ELSE /\ sessions' = [sessions EXCEPT ![sid].lastActivity = now]
               /\ emitted' = <<>>
     ELSE /\ sessions' = [sessions EXCEPT ![sid].lastActivity = now]
          /\ emitted' = <<Msg("reconnect-required", {s}, <<sid>>)>>

\* cursor-update by a socket whose session is there, numeric x and y
MoveCursor(s, sid, x, y) ==
  LET session == sessions[sid]
      userIndex == FindIndex(session.users, s)
      sanitizedX == Clamp(x, CANVAS_W)
      sanitizedY == Clamp(y, CANVAS_H)
      prevX == session.users[userIndex].x
      prevY == session.users[userIndex].y
      movementThreshold == 1 * Unit
  IN IF userIndex # 0
     THEN IF \/ Abs(sanitizedX - prevX) > movementThreshold
             \/ Abs(sanitizedY - prevY) > movementThreshold
          THEN /\ sessions' = [sessions EXCEPT
                    ![sid].users[userIndex].x = sanitizedX,
                    ![sid].users[userIndex].y = sanitizedY,
                    ![sid].users[userIndex].lastUpdate = now,
                    ![sid].lastActivity = now]
               /\ emitted' = <<Msg("cursor-updated", InRoom(sid),
                                   <<s, sanitizedX, sanitizedY>>)>>
          ELSE /\ sessions' = [sessions EXCEPT ![sid].lastActivity = now]
               /\ emitted' = <<>>
     ELSE /\ sessions' = [sessions EXCEPT ![sid].lastActivity = now]
          /\ emitted' = <<Msg("reconnect-required", {s}, <<sid>>)>>

\* CursorUpdate that tests the type of x alone
CursorUpdateTestsXOnly(s, x, y) ==
  /\ s \in DOMAIN rooms
  /\ IF s \notin DOMAIN users THEN Ignored
     ELSE IF users[s] \notin DOMAIN sessions THEN Ignored
     ELSE IF x.typeof # "number" THEN Ignored
     ELSE MoveCursor(s, users[s], x.val, y.val)
  /\ fired' = Step("cursor-update", s, IF s \in DOMAIN users THEN users[s] ELSE NULL)
  /\ UNCHANGED <<display, users, rooms, nextSocket, nextSession, intervals, timeouts,
                 now, ticks, nextElement>>

\* cursor-update with payload {x, y}
CursorUpdate(s, x, y) ==
  /\ s \in DOMAIN rooms
  /\ IF s \notin DOMAIN users THEN Ignored
     ELSE IF users[s] \notin DOMAIN sessions THEN Ignored
     ELSE IF x.typeof # "number" \/ y.typeof # "number" THEN Ignored
     ELSE MoveCursor(s, users[s], x.val, y.val)
  /\ fired' = Step("cursor-update", s, IF s \in DOMAIN users THEN users[s] ELSE NULL)
  /\ UNCHANGED <<display, users, rooms, nextSocket, nextSession, intervals, timeouts,
                 now, ticks, nextElement>>

\* disconnect: the roster of the associated session loses the socket
Left(s) ==
  IF s \in DOMAIN users /\ users[s] \in DOMAIN sessions
  THEN [sessions EXCEPT ![users[s]].users = Without(@, s),
                        ![users[s]].lastActivity = now]
  ELSE sessions

\* Disconnect that forgets users.delete(socket.id)
DisconnectKeepsAssociation(s) ==
  /\ s \in DOMAIN rooms
  /\ sessions' = Left(s)
  /\ emitted' = IF s \in DOMAIN users /\ users[s] \in DOMAIN sessions
                THEN <<Msg("user-left", InRoom(users[s]) \ {s}, <<s>>)>>
                ELSE <<>>
  /\ rooms' = Drop(rooms, s)
  /\ fired' = Step("disconnect", s, IF s \in DOMAIN users THEN users[s] ELSE NULL)
  /\ UNCHANGED <<display, users, nextSocket, nextSession, intervals, timeouts, now, ticks,
                 nextElement>>

Disconnect(s) ==
  /\ s \in DOMAIN rooms
  /\ sessions' = Left(s)
  /\ emitted' = IF s \in DOMAIN users /\ users[s] \in DOMAIN sessions
                THEN <<Msg("user-left", InRoom(users[s]) \ {s}, <<s>>)>>
                ELSE <<>>
  /\ users' = Drop(users, s)
  /\ rooms' = Drop(rooms, s)
  /\ fired' = Step("disconnect", s, IF s \in DOMAIN users THEN users[s] ELSE NULL)
  /\ UNCHANGED <<display, nextSocket, nextSession, intervals, timeouts, now, ticks, nextElement>>

\* ping
Ping(s) ==
  /\ s \in DOMAIN rooms
  /\ emitted' = <<Msg("pong", {s}, <<>>)>>
  /\ fired' = Step("ping", s, NULL)
  /\ UNCHANGED <<display, sessions, users, rooms, nextSocket, nextSession, intervals,
                 timeouts, now, ticks, nextElement>>

(* --------------------------- board elements --------------------------- *)
\* A payload is a record of the fields it carries; a field that is missing
\* reads as undefined.  A number is Number(v), NotNumber is a string that is
\* no numeral, such as 'abc', and NaN is what arithmetic makes of it (no
\* payload carries NaN: JSON has none).  Of an element the model keeps id,
\* type, x, y, width, height and createdBy.
NaN == [typeof |-> "number", nan |-> TRUE]

Has(data, field) == field \in DOMAIN data

\* Math.max(0, Math.min(limit, v)) on a value of any type
ClampValue(v, limit) ==
  IF v.typeof = "number" /\ Has(v, "val") THEN Number(Clamp(v.val, limit)) ELSE NaN

\* a value that is falsy: undefined is a missing field, so of the values a
\* payload carries 0 and NaN are (the string of NotNumber is not empty)
Falsy(v) == v.typeof = "number" /\ (~Has(v, "val") \/ v.val = 0)

\* data[field] || default
OrElse(data, field, default) ==
  IF ~Has(data, field) \/ Falsy(data[field]) THEN default ELSE data[field]

\* the default width and height of an element
DefaultSize == 100

\* newElement that stores the coordinates as they came
newElementAsSent(s, data) ==
  [id |-> nextElement, type |-> data.type, x |-> data.x, y |-> data.y,
   width |-> OrElse(data, "width", Number(DefaultSize * Unit)),
   height |-> OrElse(data, "height", Number(DefaultSize * Unit)),
   createdBy |-> s]

newElement(s, data) ==
  [id |-> nextElement, type |-> data.type,
   x |-> ClampValue(data.x, CANVAS_W), y |-> ClampValue(data.y, CANVAS_H),
   width |-> OrElse(data, "width", Number(DefaultSize * Unit)),
   height |-> OrElse(data, "height", Number(DefaultSize * Unit)),
   createdBy |-> s]

\* the validation of create-element fails
BadElement(data) ==
  \/ ~Has(data, "type") \/ data.type = ""
  \/ ~Has(data, "x") \/ data.x.typeof # "number"
  \/ ~Has(data, "y") \/ data.y.typeof # "number"

\* create-element with payload data
CreateElement(s, data) ==
  /\ s \in DOMAIN rooms
  /\ IF ~Associated(s) \/ BadElement(data) THEN Ignored /\ UNCHANGED nextElement
     ELSE /\ sessions' = [sessions EXCEPT
                ![users[s]].elements = Append(@, newElement(s, data)),
                ![users[s]].lastActivity = now]
          /\ emitted' = <<Msg("element-created", InRoom(users[s]), newElement(s, data))>>
          /\ nextElement' = nextElement + 1
  /\ fired' = Step("create-element", s, IF s \in DOMAIN users THEN users[s] ELSE NULL)
  /\ UNCHANGED <<display, users, rooms, nextSocket, nextSession, intervals, timeouts,
                 now, ticks>>

\* { ...element, ...updateData }
Merge(element, updateData) ==
  [f \in DOMAIN element \cup DOMAIN updateData |->
     IF f \in DOMAIN updateData THEN updateData[f] ELSE element[f]]

updatedElement(element, updateData) ==
  [Merge(element, updateData) EXCEPT
     !.x = IF Has(updateData, "x") THEN ClampValue(updateData.x, CANVAS_W)
           ELSE element.x,
     !.y = IF Has(updateData, "y") THEN ClampValue(updateData.y, CANVAS_H)
           ELSE element.y]

\* update-element with payload { id, ...updateData }
UpdateElement(s, id, updateData) ==
  /\ s \in DOMAIN rooms
  /\ IF ~Associated(s) THEN Ignored
     ELSE LET elementIndex == FindIndex(sessions[users[s]].elements, id)
              updated == updatedElement(sessions[users[s]].elements[elementIndex],
                                        updateData)
          IN IF id = NULL \/ elementIndex = 0 THEN Ignored
             ELSE /\ sessions' = [sessions EXCEPT
                        ![users[s]].elements[elementIndex] = updated,
                        ![users[s]].lastActivity = now]
                  /\ emitted' = <<Msg("element-updated", InRoom(users[s]), updated)>>
  /\ fired' = Step("update-element", s, IF s \in DOMAIN users THEN users[s] ELSE NULL)
  /\ UNCHANGED <<display, users, rooms, nextSocket, nextSession, intervals, timeouts,
                 now, ticks, nextElement>>

\* DeleteElement that filters the elements of every session
DeleteElementEverywhere(s, id) ==
  /\ s \in DOMAIN rooms
  /\ IF ~Associated(s) \/ id = NULL THEN Ignored
     ELSE /\ sessions' = [sid \in DOMAIN sessions |->
                [sessions[sid] EXCEPT
                   !.elements = Without(@, id),
                   !.lastActivity = IF sid = users[s] THEN now ELSE @]]
          /\ emitted' = <<Msg("element-deleted", InRoom(users[s]), id)>>
  /\ fired' = Step("delete-element", s, IF s \in DOMAIN users THEN users[s] ELSE NULL)
  /\ UNCHANGED <<display, users, rooms, nextSocket, nextSession, intervals, timeouts,
                 now, ticks, nextElement>>

\* delete-element with payload { id }
DeleteElement(s, id) ==
  /\ s \in DOMAIN rooms
  /\ IF ~Associated(s) \/ id = NULL THEN Ignored
     ELSE /\ sessions' = [sessions EXCEPT
                ![users[s]].elements = Without(@, id),
                ![users[s]].lastActivity = now]
          /\ emitted' = <<Msg("element-deleted", InRoom(users[s]), id)>>
  /\ fired' = Step("delete-element", s, IF s \in DOMAIN users THEN users[s] ELSE NULL)
  /\ UNCHANGED <<display, users, rooms, nextSocket, nextSession, intervals, timeouts,
                 now, ticks, nextElement>>

(* --------------------------- display client --------------------------- *)
\* Of the users state of MainDisplay the model keeps the ids, in order.
\* the users state after the handler of event e has run on prev
Received(prev, e) ==
  IF e.ev = "session-joined" THEN [i \in 1..Len(e.arg.users) |-> e.arg.users[i].id]
  ELSE IF e.ev = "user-joined" THEN Append(prev, e.arg.id)
  ELSE IF e.ev = "user-left" THEN SelectSeq(prev, LAMBDA id : id # e.arg[1])
  ELSE prev

RECURSIVE ReceivedFrom(_, _, _, _)
\* the users state of socket d after the events i.. of msgs that are
\* addressed to it have been handled in order
ReceivedFrom(prev, msgs, i, d) ==
  IF i > Len(msgs) THEN prev
  ELSE ReceivedFrom(IF d \in msgs[i].to THEN Received(prev, msgs[i]) ELSE prev,
                    msgs, i + 1, d)

\* the clients' users state starts as [] (useState)
Held(d) == IF d \in DOMAIN display THEN display[d] ELSE <<>>

\* the events of the last step reach the connected clients, in the order
\* they were emitted
Deliver ==
  /\ emitted # <<>>
  /\ display' = [d \in DOMAIN rooms |-> ReceivedFrom(Held(d), emitted, 1, d)]
  /\ emitted' = <<>>
  /\ fired' = Step("deliver", NULL, NULL)
  /\ UNCHANGED <<sessions, users, rooms, nextSocket, nextSession, intervals,
                 timeouts, now, ticks, nextElement>>

(* -------------------------- absent payloads --------------------------- *)
\* The events whose handler destructures its payload.
PayloadEvents ==
  {"join-session", "cursor-update", "create-element", "update-element",
   "delete-element"}

\* the handler of event ev gets as far as destructuring its payload:
\* join-session does so at once, the others after users.get and sessions.get
Destructures(s, ev) == ev = "join-session" \/ Associated(s)

\* A TypeError leaves the handler.  Nothing catches it (the listeners run
\* unguarded and the process installs no uncaughtException handler), so the
\* process ends: the Maps, the timers and every connection are gone.
Thrown ==
  /\ sessions' = [x \in {} |-> 0]
  /\ users' = [x \in {} |-> 0]
  /\ rooms' = [x \in {} |-> {}]
  /\ intervals' = {}
  /\ timeouts' = [x \in {} |-> 0]
  /\ emitted' = <<>>

\* event ev with no payload (data is undefined or null)
AbsentPayload(s, ev) ==
  /\ s \in DOMAIN rooms
  /\ IF Destructures(s, ev)
     THEN Thrown /\ fired' = Step("uncaughtException", s, NULL)
     ELSE /\ UNCHANGED <<sessions, users, rooms, intervals, timeouts, emitted>>
          /\ fired' = Step(ev, s, NULL)
  /\ UNCHANGED <<display, nextSocket, nextSession, now, ticks, nextElement>>

\* the process is alive
Running == fired.type # "uncaughtException"


(* ----------------------------- game loop ------------------------------ *)
\* Scored without the test of scoringPlayer
ScoredWhoeverKicked(scores, scoringPlayer) ==
  Put(scores, scoringPlayer,
      (IF scoringPlayer \in DOMAIN scores THEN scores[scoringPlayer] ELSE 0) + 1)

\* scores[scoringPlayer] += 1 when the last toucher is known
Scored(scores, scoringPlayer) ==
  IF scoringPlayer = NULL THEN scores
  ELSE Put(scores, scoringPlayer,
           (IF scoringPlayer \in DOMAIN scores THEN scores[scoringPlayer] ELSE 0) + 1)

\* the session after checkGoalCollisions
checkGoalCollisions(session) ==
  LET g == GoalHit(session.ball)
  IN IF g = 0 THEN session
     ELSE [session EXCEPT !.gameState = [inPlay |-> FALSE, lastGoal |-> goals[g].side],
                          !.scores = Scored(@, session.ball.lastTouchedBy)]

\* the session after the four steps of one firing of the game loop
GameTick(session) ==
  LET ball == checkBallCursorCollisions(updateBallPhysics(session.ball), session.users)
      roster == checkCursorCollisions(session.users)
  IN checkGoalCollisions([session EXCEPT !.ball = ball, !.users = roster])

RECURSIVE CursorEvents(_, _, _, _)
\* the cursor-updated events of checkCursorCollisions, in roster order
CursorEvents(sid, before, after, i) ==
  IF i > Len(before) THEN <<>>
  ELSE (IF Moved(before, i)
        THEN <<Msg("cursor-updated", InRoom(sid), <<after[i].id, after[i].x, after[i].y>>)>>
        ELSE <<>>) \o CursorEvents(sid, before, after, i + 1)

\* the goal event of checkGoalCollisions
GoalEvents(sid, session) ==
  IF GoalHit(session.ball) = 0 THEN <<>>
  ELSE <<Msg("goal", InRoom(sid), <<GoalHit(session.ball), session.ball.lastTouchedBy>>)>>

\* the game loop fires and finds its session
TickLive(sid) ==
  LET after == GameTick(sessions[sid])
      goal == GoalHit(after.ball) # 0
  IN /\ goal => Pending(sid) < MaxPending
     /\ sessions' = [sessions EXCEPT ![sid] = after]
     /\ timeouts' = IF goal THEN Put(timeouts, sid, Pending(sid) + 1) ELSE timeouts
     /\ emitted' = CursorEvents(sid, sessions[sid].users, after.users, 1)
                   \o GoalEvents(sid, after)
                   \o <<Msg("game-state-update", InRoom(sid),
                            <<after.ball.x, after.ball.y>>)>>
     /\ UNCHANGED intervals

\* the game loop fires and its session is gone: clearInterval
TickStale(sid) ==
  /\ intervals' = intervals \ {sid}
  /\ emitted' = <<>>
  /\ UNCHANGED <<sessions, timeouts>>

\* one firing of the setInterval of startGameLoop(sid)
Tick(sid, limit) ==
  /\ sid \in intervals
  /\ ticks < limit
  /\ IF sid \in DOMAIN sessions THEN TickLive(sid) ELSE TickStale(sid)
  /\ ticks' = ticks + 1
  /\ fired' = Step("tick", NULL, sid)
  /\ UNCHANGED <<display, users, rooms, nextSocket, nextSession, now, nextElement>>

\* RespawnLive that forgets gameState.inPlay = true
RespawnLiveStaysPaused(sid) ==
  /\ sessions' = [sessions EXCEPT
        ![sid].ball = [@ EXCEPT !.x = CENTER_X * Unit, !.y = CENTER_Y * Unit,
                                !.velocityX = 0, !.velocityY = 0,
                                !.lastTouchedBy = NULL]]
  /\ emitted' = <<Msg("game-resume", InRoom(sid), <<CENTER_X * Unit, CENTER_Y * Unit>>)>>

\* the respawn finds its session: ball to the centre, play resumes
RespawnLive(sid) ==
  /\ sessions' = [sessions EXCEPT
        ![sid].ball = [@ EXCEPT !.x = CENTER_X * Unit, !.y = CENTER_Y * Unit,
                                !.velocityX = 0, !.velocityY = 0,
                                !.lastTouchedBy = NULL],
        ![sid].gameState.inPlay = TRUE]
  /\ emitted' = <<Msg("game-resume", InRoom(sid), <<CENTER_X * Unit, CENTER_Y * Unit>>)>>

\* RespawnStale without the sessions.has(session.id) test
RespawnStaleResumes(sid) ==
  /\ emitted' = <<Msg("game-resume", InRoom(sid), <<CENTER_X * Unit, CENTER_Y * Unit>>)>>
  /\ UNCHANGED sessions

\* the respawn finds no session
RespawnStale(sid) ==
  /\ emitted' = <<>>
  /\ UNCHANGED sessions

\* one setTimeout of checkGoalCollisions fires
Respawn(sid) ==
  /\ Pending(sid) > 0
  /\ timeouts' = IF Pending(sid) = 1 THEN Drop(timeouts, sid)
                 ELSE [timeouts EXCEPT ![sid] = @ - 1]
  /\ IF sid \in DOMAIN sessions THEN RespawnLive(sid) ELSE RespawnStale(sid)
  /\ fired' = Step("respawn", NULL, sid)
  /\ UNCHANGED <<display, users, rooms, nextSocket, nextSession, intervals, now, ticks, nextElement>>

(* --------------------------- specifications --------------------------- *)
\* cursor-update payloads {x, y}: beyond the far corner of the canvas, and
\* a payload whose x is no number
CursorInputs ==
  {<<Number(5000 * Unit), Number(2000 * Unit)>>,
   <<NotNumber, Number(CENTER_Y * Unit)>>}

\* Presence: connections, joins, cursor moves, disconnects and the game
\* loop, with no time passing (now = 0, so the cleanup would remove nothing).
\* Within MaxTicks firings no ball gets from the centre to a goal, so no
\* respawn is ever pending here: SpecGoal explores goals and respawns,
\* SpecReaper the clock and the cleanup.
Next ==
  \/ Connect(MaxSockets)
  \/ CreateSession(MaxSessions)
  \/ \E s \in DOMAIN rooms, sid \in 1..MaxSessions, t \in UserTypes :
       JoinSession(s, sid, t)
  \/ \E s \in DOMAIN rooms, p \in CursorInputs : CursorUpdate(s, p[1], p[2])
  \/ \E s \in DOMAIN rooms : Disconnect(s)
  \/ \E sid \in intervals : Tick(sid, MaxTicks)

Spec == Init /\ [][Next]_vars

\* Registry: sessions are created, age and are cleaned up while a single
\* connection joins them as a display, moves its cursor and leaves, and the
\* game loops fire.
NextReaper ==
  \/ nextSocket = 1 /\ Connect(MaxSockets)
  \/ CreateSession(MaxSessions)
  \/ AdvanceClock
  \/ Cleanup
  \/ \E s \in DOMAIN rooms, sid \in 1..MaxSessions : JoinSession(s, sid, "display")
  \/ \E s \in DOMAIN rooms, p \in CursorInputs : CursorUpdate(s, p[1], p[2])
  \/ \E s \in DOMAIN rooms : Disconnect(s)
  \/ \E sid \in intervals : Tick(sid, MaxTicks)

SpecReaper == Init /\ [][NextReaper]_vars

\* the ball of the session socket s is associated with
BallOf(s) == sessions[users[s]].ball

\* session sid has a cursor that can kick the ball, and every such cursor
\* sits on the ball
Chased(sid) ==
  /\ \E i \in 1..Len(sessions[sid].users) : sessions[sid].users[i].userType # "display"
  /\ \A i \in 1..Len(sessions[sid].users) :
       LET u == sessions[sid].users[i]
       IN u.userType # "display" =>
            u.x = sessions[sid].ball.x /\ u.y = sessions[sid].ball.y

\* Goals: one session and a single connection, a controller that keeps its
\* cursor on the ball (its cursor-update carries the ball's position and is
\* served before the next firing of the game loop), which drives the ball
\* from the centre into the right goal in under GoalTicks firings.  While the
\* game is in play only these firings are followed (a ball nobody drives
\* never reaches a goal); once play is paused, or the session is gone, the
\* game loop fires freely.  The session may age and be cleaned up at any time.
NextGoal ==
  \/ nextSocket = 1 /\ Connect(MaxSockets)
  \/ nextSession = 1 /\ CreateSession(MaxSessions)
  \/ AdvanceClock
  \/ Cleanup
  \/ \E s \in DOMAIN rooms, sid \in 1..MaxSessions : JoinSession(s, sid, "controller")
  \/ \E s \in DOMAIN rooms :
       /\ s \in DOMAIN users /\ users[s] \in DOMAIN sessions
       /\ CursorUpdate(s, Number(BallOf(s).x), Number(BallOf(s).y))
  \/ \E s \in DOMAIN rooms : Disconnect(s)
  \/ \E sid \in intervals :
       /\ (sid \in DOMAIN sessions /\ sessions[sid].gameState.inPlay) => Chased(sid)
       /\ Tick(sid, GoalTicks)
  \/ \E sid \in DOMAIN timeouts : Respawn(sid)

SpecGoal == Init /\ [][NextGoal]_vars

\* a pending setTimeout fires
SpecGoalFair == SpecGoal /\ \A sid \in 1..MaxSessions : WF_vars(Respawn(sid))

\* Capacity: one session; connections arrive one after the other, and the
\* newest one joins the session as a display, or rejoins, or leaves, before
\* the next connects.
NextCrowd ==
  \/ Connect(CrowdSockets)
  \/ nextSession = 1 /\ CreateSession(MaxSessions)
  \/ \E sid \in 1..MaxSessions :
       nextSocket > 1 /\ JoinSession(nextSocket - 1, sid, "display")
  \/ nextSocket > 1 /\ Disconnect(nextSocket - 1)

SpecCrowd == Init /\ [][NextCrowd]_vars

\* the cursor of a roster entry is two pixels (more than the movement
\* threshold) above or below the ball's centre, on the side the ball moves
\* away from
Behind(u, ball) ==
  /\ u.x = ball.x
  /\ \/ u.y = ball.y - 2 * Unit /\ ball.velocityY >= 0
     \/ u.y = ball.y + 2 * Unit /\ ball.velocityY <= 0

\* session sid has a cursor that can kick the ball, and every such cursor
\* is right behind the ball
Driven(sid) ==
  /\ \E i \in 1..Len(sessions[sid].users) : sessions[sid].users[i].userType # "display"
  /\ \A i \in 1..Len(sessions[sid].users) :
       sessions[sid].users[i].userType # "display"
         => Behind(sessions[sid].users[i], sessions[sid].ball)

\* Walls: one session and a single connection, a controller that keeps its
\* cursor right behind the ball, above it or below it, and so drives the ball
\* from the centre up or down the canvas, clear of the goals, into a wall in
\* under WallTicks firings of the game loop; only the firings that find the
\* ball driven are followed.
NextWall ==
  \/ nextSocket = 1 /\ Connect(MaxSockets)
  \/ nextSession = 1 /\ CreateSession(MaxSessions)
  \/ \E s \in DOMAIN rooms, sid \in 1..MaxSessions : JoinSession(s, sid, "controller")
  \/ \E s \in DOMAIN rooms, dy \in {-2 * Unit, 2 * Unit} :
       /\ Associated(s)
       /\ CursorUpdate(s, Number(BallOf(s).x), Number(BallOf(s).y + dy))
       /\ Driven(users[s])'
  \/ \E sid \in intervals :
       /\ sid \in DOMAIN sessions => Driven(sid)
       /\ Tick(sid, WallTicks)

SpecWall == Init /\ [][NextWall]_vars

\* create-element payloads: beyond two edges of the canvas and wider than
\* it (no height is sent), without a type, and with an x that is no number
FarElement ==
  [type |-> "note", x |-> Number(5000 * Unit), y |-> Number((-100) * Unit),
   width |-> Number(5000 * Unit)]

CreateInputs ==
  <<FarElement,
    [x |-> Number(CENTER_X * Unit), y |-> Number(CENTER_Y * Unit)],
    [type |-> "note", x |-> NotNumber, y |-> Number(CENTER_Y * Unit)]>>

\* update-element payloads less their id: an x that is no number and no y,
\* and a position beyond two edges of the canvas with a height beyond it
UpdateInputs ==
  <<[x |-> NotNumber],
    [x |-> Number((-100) * Unit), y |-> Number(2000 * Unit),
     height |-> Number(2000 * Unit)]>>

\* Board: one session whose elements a single connection that joined it
\* creates, updates and deletes while time passes; an id is one of an element
\* created so far, one never given out, or missing (NULL).
NextBoard ==
  \/ nextSocket = 1 /\ Connect(MaxSockets)
  \/ nextSession = 1 /\ CreateSession(MaxSessions)
  \/ AdvanceClock
  \/ \E s \in DOMAIN rooms, sid \in 1..MaxSessions : JoinSession(s, sid, "display")
  \/ \E s \in DOMAIN rooms, i \in DOMAIN CreateInputs :
       nextElement <= MaxElements /\ CreateElement(s, CreateInputs[i])
  \/ \E s \in DOMAIN rooms, id \in 0..MaxElements, i \in DOMAIN UpdateInputs :
       UpdateElement(s, id, UpdateInputs[i])
  \/ \E s \in DOMAIN rooms, id \in 0..MaxElements : DeleteElement(s, id)
  \/ \E s \in DOMAIN rooms : Disconnect(s)

SpecBoard == Init /\ [][NextBoard]_vars

\* cursor-update payloads beyond the low corner and beyond the high corner
\* of the canvas
CanvasInputs ==
  {<<Number((-100) * Unit), Number((-100) * Unit)>>,
   <<Number(5000 * Unit), Number(2000 * Unit)>>}

\* Canvas: the controllers of one session join, rejoin and move their cursors
\* beyond the corners of the canvas, and the game loop pushes apart those
\* that overlap.
NextCanvas ==
  \/ Connect(MaxSockets)
  \/ nextSession = 1 /\ CreateSession(MaxSessions)
  \/ \E s \in DOMAIN rooms, sid \in DOMAIN sessions : JoinSession(s, sid, "controller")
  \/ \E s \in DOMAIN rooms, p \in CanvasInputs : CursorUpdate(s, p[1], p[2])
  \/ \E sid \in intervals : Tick(sid, MaxTicks)

SpecCanvas == Init /\ [][NextCanvas]_vars

\* Room: the connections join one session in either role, move their
\* cursors and leave.
NextRoom ==
  \/ Connect(MaxSockets)
  \/ nextSession = 1 /\ CreateSession(MaxSessions)
  \/ \E s \in DOMAIN rooms, sid \in 1..MaxSessions, t \in UserTypes :
       JoinSession(s, sid, t)
  \/ \E s \in DOMAIN rooms, p \in CursorInputs : CursorUpdate(s, p[1], p[2])
  \/ \E s \in DOMAIN rooms : Disconnect(s)

SpecRoom == Init /\ [][NextRoom]_vars

\* cursor-update payloads around the centre of the canvas, where a joiner is
\* placed: the centre, one pixel to its right, a hundredth of a pixel more
\* than that, a hundredth more than one pixel below the centre, beyond the
\* right edge, and two payloads with a coordinate that is no number
NudgeInputs ==
  <<<<Number(CENTER_X * Unit), Number(CENTER_Y * Unit)>>,
    <<Number((CENTER_X + 1) * Unit), Number(CENTER_Y * Unit)>>,
    <<Number((CENTER_X + 1) * Unit + 1), Number(CENTER_Y * Unit)>>,
    <<Number(CENTER_X * Unit), Number((CENTER_Y + 1) * Unit + 1)>>,
    <<Number(5000 * Unit), Number(CENTER_Y * Unit)>>,
    <<NotNumber, Number(CENTER_Y * Unit)>>,
    <<Number(CENTER_X * Unit), NotNumber>>>>

\* Nudge: a single connection joins one session as a controller and moves
\* its cursor by small and large steps while time passes.
NextNudge ==
  \/ nextSocket = 1 /\ Connect(MaxSockets)
  \/ nextSession = 1 /\ CreateSession(MaxSessions)
  \/ AdvanceClock
  \/ \E s \in DOMAIN rooms, sid \in 1..MaxSessions : JoinSession(s, sid, "controller")
  \/ \E s \in DOMAIN rooms, i \in DOMAIN NudgeInputs :
       CursorUpdate(s, NudgeInputs[i][1], NudgeInputs[i][2])

SpecNudge == Init /\ [][NextNudge]_vars

\* balls for checkGoalCollisions: at rest against the left wall, at the
\* centre or against the right wall, level with the goals or just above
\* them, last touched by nobody or by socket 1
StrayBalls ==
  {[NewBall EXCEPT !.x = x, !.y = y, !.lastTouchedBy = by] :
     x \in {BALL_RADIUS * Unit, CENTER_X * Unit, (CANVAS_W - BALL_RADIUS) * Unit},
     y \in {CENTER_Y * Unit, leftGoal.y - BALL_RADIUS * Unit},
     by \in {NULL, 1}}

\* a server with one session, whose ball is one of StrayBalls
InitStray ==
  /\ now = 0
  /\ \E ball \in StrayBalls : sessions = Put(<<>>, 1, [NewSession EXCEPT !.ball = ball])
  /\ users = [x \in {} |-> 0]
  /\ rooms = [x \in {} |-> {}]
  /\ nextSocket = 1
  /\ nextSession = 2
  /\ intervals = {1}
  /\ timeouts = [x \in {} |-> 0]
  /\ ticks = 0
  /\ nextElement = 1
  /\ emitted = <<>>
  /\ fired = Step("create", NULL, 1)
  /\ display = [x \in {} |-> <<>>]

\* Stray: checkGoalCollisions on balls the game loop finds in a goal or out
\* of it, attributed or not, while a single connection joins the session in
\* either role and the respawns fire.
NextStray ==
  \/ nextSocket = 1 /\ Connect(MaxSockets)
  \/ \E s \in DOMAIN rooms, sid \in DOMAIN sessions, t \in UserTypes :
       JoinSession(s, sid, t)
  \/ \E sid \in intervals : Tick(sid, MaxTicks)
  \/ \E sid \in DOMAIN timeouts : Respawn(sid)

SpecStray == InitStray /\ [][NextStray]_vars

\* Touch: the connections join one session in either role, at the centre
\* where the ball is, move their cursors away to the far corner, and the
\* game loop fires.
NextTouch ==
  \/ Connect(MaxSockets)
  \/ nextSession = 1 /\ CreateSession(MaxSessions)
  \/ \E s \in DOMAIN rooms, sid \in DOMAIN sessions, t \in UserTypes :
       JoinSession(s, sid, t)
  \/ \E s \in DOMAIN rooms : CursorUpdate(s, Number(5000 * Unit), Number(2000 * Unit))
  \/ \E sid \in intervals : Tick(sid, MaxTicks)

SpecTouch == Init /\ [][NextTouch]_vars

\* Palette: the connections join one session as controllers, with any draw
\* of the colour, and leave.
NextPalette ==
  \/ Connect(MaxSockets)
  \/ nextSession = 1 /\ CreateSession(MaxSessions)
  \/ \E s \in DOMAIN rooms, sid \in DOMAIN sessions, random \in Draws :
       JoinSessionDrawing(s, sid, "controller", random)
  \/ \E s \in DOMAIN rooms : Disconnect(s)

SpecPalette == Init /\ [][NextPalette]_vars

\* every session has been created and has its controller
Settled == nextSession > MaxSessions /\ DOMAIN users = DOMAIN sessions

\* Rooms: connection k arrives once session k is there and joins it as a
\* controller; once every session has its controller, each moves its cursor,
\* creates board elements, sends the newest one beyond the right edge again
\* or deletes it, and the game loops fire.
NextRooms ==
  \/ nextSocket < nextSession /\ Connect(MaxSockets)
  \/ CreateSession(MaxSessions)
  \/ \E s \in DOMAIN rooms :
       s \in DOMAIN sessions /\ s \notin DOMAIN users /\ JoinSession(s, s, "controller")
  \/ \E s \in DOMAIN rooms :
       Settled /\ CursorUpdate(s, Number(5000 * Unit), Number(2000 * Unit))
  \/ \E s \in DOMAIN rooms :
       Settled /\ nextElement <= MaxElements /\ CreateElement(s, FarElement)
  \/ \E s \in DOMAIN rooms :
       Settled /\ UpdateElement(s, nextElement - 1, [x |-> FarElement.x])
  \/ \E s \in DOMAIN rooms : Settled /\ DeleteElement(s, nextElement - 1)
  \/ \E sid \in intervals : Settled /\ Tick(sid, MaxTicks)

SpecRooms == Init /\ [][NextRooms]_vars

\* Welcome: the connections create board elements in one session, join it
\* and rejoin it in either role, and move their cursors away from the centre.
NextWelcome ==
  \/ Connect(MaxSockets)
  \/ nextSession = 1 /\ CreateSession(MaxSessions)
  \/ \E s \in DOMAIN rooms, sid \in DOMAIN sessions, t \in UserTypes :
       JoinSession(s, sid, t)
  \/ \E s \in DOMAIN rooms : CursorUpdate(s, Number(5000 * Unit), Number(2000 * Unit))
  \/ \E s \in DOMAIN rooms : nextElement <= MaxElements /\ CreateElement(s, FarElement)

SpecWelcome == Init /\ [][NextWelcome]_vars

\* Authors: the connections join one session, create board elements and
\* send update-element payloads that carry a createdBy, the id of any of the
\* connections.
NextAuthors ==
  \/ Connect(MaxSockets)
  \/ nextSession = 1 /\ CreateSession(MaxSessions)
  \/ \E s \in DOMAIN rooms, sid \in DOMAIN sessions : JoinSession(s, sid, "controller")
  \/ \E s \in DOMAIN rooms : nextElement <= MaxElements /\ CreateElement(s, FarElement)
  \/ \E s, t \in DOMAIN rooms, id \in 1..MaxElements :
       UpdateElement(s, id, [createdBy |-> t])

SpecAuthors == Init /\ [][NextAuthors]_vars

\* Creation: sessions are requested, and the request is answered with the
\* session id or, when the QR code cannot be made, with an error; a single
\* connection joins them as a display, time passes, the cleanup runs and the
\* game loops fire.
NextCreation ==
  \/ nextSocket = 1 /\ Connect(MaxSockets)
  \/ CreateSession(MaxSessions)
  \/ CreateSessionFailed(MaxSessions)
  \/ AdvanceClock
  \/ Cleanup
  \/ \E s \in DOMAIN rooms, sid \in DOMAIN sessions : JoinSession(s, sid, "display")
  \/ \E sid \in intervals : Tick(sid, MaxTicks)

SpecCreation == Init /\ [][NextCreation]_vars

\* a client holds MaxHeld users or more
Crowded == \E d \in DOMAIN display : Len(display[d]) >= MaxHeld

\* Mirror: the connections join one session in either role, rejoin it and
\* leave; the events of each step are delivered before the next one.
NextMirror ==
  \/ emitted = <<>> /\ Connect(MaxSockets)
  \/ emitted = <<>> /\ nextSession = 1 /\ CreateSession(MaxSessions)
  \/ \E s \in DOMAIN rooms, sid \in DOMAIN sessions, t \in UserTypes :
       emitted = <<>> /\ ~Crowded /\ JoinSession(s, sid, t)
  \/ \E s \in DOMAIN rooms : emitted = <<>> /\ Disconnect(s)
  \/ Deliver

SpecMirror == Init /\ [][NextMirror]_vars

\* Payloads: the events of a single connection arrive with a payload or
\* without one, as long as the process is alive.
NextPayload ==
  \/ Running /\ nextSocket = 1 /\ Connect(MaxSockets)
  \/ Running /\ CreateSession(MaxSessions)
  \/ \E s \in DOMAIN rooms, sid \in 1..MaxSessions :
       Running /\ JoinSession(s, sid, "controller")
  \/ \E s \in DOMAIN rooms, p \in CursorInputs :
       Running /\ CursorUpdate(s, p[1], p[2])
  \/ \E s \in DOMAIN rooms, i \in DOMAIN CreateInputs :
       Running /\ nextElement <= MaxElements /\ CreateElement(s, CreateInputs[i])
  \/ \E s \in DOMAIN rooms, ev \in PayloadEvents : Running /\ AbsentPayload(s, ev)
  \/ \E s \in DOMAIN rooms : Running /\ Ping(s)
  \/ \E s \in DOMAIN rooms : Running /\ Disconnect(s)

SpecPayload == Init /\ [][NextPayload]_vars

(* ------------------------------- claims ------------------------------- *)
HasEvent(ev) == \E i \in 1..Len(emitted) : emitted[i].ev = ev

\* C1: no roster is longer than the session's maxUsers.
C1_RosterWithinCapacity ==
  \A sid \in DOMAIN sessions : Len(sessions[sid].users) <= sessions[sid].maxUsers

\* C2: a socket whose disconnect has been served is in the roster of no
\* session.
C2_DisconnectedInNoRoster ==
  \A s \in 1..(nextSocket - 1) :
    s \notin DOMAIN rooms =>
      \A sid \in DOMAIN sessions : s \notin Ids(sessions[sid].users)

\* C3: a firing of the game loop that finds the game paused (inPlay false)
\* emits no goal and changes no score.
C3_NoGoalWhilePaused ==
  [][\A sid \in DOMAIN sessions :
       (fired'.type = "tick" /\ fired'.sid = sid /\ ~sessions[sid].gameState.inPlay)
         => /\ sessions'[sid].scores = sessions[sid].scores
            /\ \A i \in 1..Len(emitted') : emitted'[i].ev # "goal"]_vars

\* C4: game-resume is emitted, and the ball put back to the centre, only
\* when the game is paused.
C4_ResumeOnlyWhenPaused ==
  [][\A sid \in DOMAIN sessions :
       (fired'.type = "respawn" /\ fired'.sid = sid
          /\ \E i \in 1..Len(emitted') : emitted'[i].ev = "game-resume")
         => ~sessions[sid].gameState.inPlay]_vars

Paused(sid) == sid \in DOMAIN sessions /\ ~sessions[sid].gameState.inPlay

AtCentreInPlay(sid) ==
  /\ sid \in DOMAIN sessions
  /\ sessions[sid].gameState.inPlay
  /\ sessions[sid].ball.x = CENTER_X * Unit
  /\ sessions[sid].ball.y = CENTER_Y * Unit
  /\ sessions[sid].ball.velocityX = 0
  /\ sessions[sid].ball.velocityY = 0

\* C5: a paused game of a session that stays in the registry is eventually
\* in play again with the ball at rest at the centre.
C5_PauseEndsAtCentre ==
  \A sid \in 1..MaxSessions :
    Paused(sid) ~> (sid \notin DOMAIN sessions \/ AtCentreInPlay(sid))

\* C5 witness: a respawn has just put a scored-on game back in play.
C5_ResumedAfterGoal ==
  /\ fired.type = "respawn"
  /\ AtCentreInPlay(fired.sid)
  /\ sessions[fired.sid].gameState.lastGoal = "right"
  /\ HasEvent("game-resume")

\* C6: the speed of every ball is at most BALL_SPEED_LIMIT.
C6_SpeedWithinLimit ==
  \A sid \in DOMAIN sessions :
    LET b == sessions[sid].ball
    IN b.velocityX * b.velocityX + b.velocityY * b.velocityY
         <= (BALL_SPEED_LIMIT * Unit) * (BALL_SPEED_LIMIT * Unit)

\* C7: the game loop timer of a session is active exactly when the session
\* is in the registry.
C7_TimerIffRegistered ==
  \A sid \in 1..(nextSession - 1) : sid \in intervals <=> sid \in DOMAIN sessions

\* C8: a game loop firing or a respawn firing for a session that is no
\* longer in the registry changes no session, association or subscription
\* and emits nothing; such a game loop firing cancels its timer, and a
\* cancelled timer never becomes active again.
C8_StaleTimersDoNothing ==
  [][/\ (fired'.type \in {"tick", "respawn"} /\ fired'.sid \notin DOMAIN sessions)
          => /\ sessions' = sessions /\ users' = users /\ rooms' = rooms
             /\ emitted' = <<>>
             /\ fired'.type = "tick" => fired'.sid \notin intervals'
     /\ \A sid \in 1..(nextSession - 1) :
          sid \notin intervals => sid \notin intervals']_vars

\* C8 witness: a respawn has fired for a cleaned-up session whose game loop
\* had already cancelled itself.
C8_StaleRespawnFired ==
  /\ fired.type = "respawn"
  /\ fired.sid \notin DOMAIN sessions
  /\ fired.sid \notin intervals

\* C9: a cleanup keeps exactly the sessions whose last activity is at most
\* the TTL old, unchanged, whatever their rosters.
C9_CleanupKeepsExactlyFresh ==
  [][fired'.type = "cleanup"
       => /\ DOMAIN sessions'
               = {sid \in DOMAIN sessions : now - sessions[sid].lastActivity <= SESSION_TTL}
          /\ \A sid \in DOMAIN sessions' : sessions'[sid] = sessions[sid]]_vars

\* C9 witness: a cleanup has kept a session with an empty roster whose last
\* activity is exactly the TTL old, and an older session is gone.
C9_SweepKeptAndRemoved ==
  /\ fired.type = "cleanup"
  /\ \E kept \in DOMAIN sessions :
       /\ sessions[kept].users = <<>>
       /\ now - sessions[kept].lastActivity = SESSION_TTL
  /\ \E gone \in 1..(nextSession - 1) : gone \notin DOMAIN sessions

\* C10: a join-session for a session id that is not in the registry emits an
\* error to the sender alone and changes no session, association or
\* subscription.
C10_UnknownJoinOnlyErrors ==
  [][(fired'.type = "join-session" /\ fired'.sid \notin DOMAIN sessions)
       => /\ sessions' = sessions /\ users' = users /\ rooms' = rooms
          /\ emitted' = <<Msg("error", {fired'.socket}, <<>>)>>]_vars

\* C10 witness: a socket associated with a session has asked to join a
\* cleaned-up session.
C10_JoinedRemovedSession ==
  /\ fired.type = "join-session"
  /\ fired.sid < nextSession
  /\ fired.sid \notin DOMAIN sessions
  /\ fired.socket \in DOMAIN users
  /\ HasEvent("error")

\* a coordinate value is a finite number within 0..limit
InCanvas(v, limit) == Has(v, "val") /\ 0 <= v.val /\ v.val <= limit * Unit

\* C11: a delete-element that removes no element of the sender's session
\* emits nothing.
C11_DeleteOfNothingIsSilent ==
  [][(/\ fired'.type = "delete-element"
      /\ Associated(fired'.socket)
      /\ sessions'[fired'.sid].elements = sessions[fired'.sid].elements)
       => emitted' = <<>>]_vars

\* C12: every participant of every session is stored at a position within
\* the canvas: 0 <= x <= 1920 and 0 <= y <= 1080.
C12_CursorsWithinCanvas ==
  \A sid \in DOMAIN sessions :
    \A i \in 1..Len(sessions[sid].users) :
      LET u == sessions[sid].users[i]
      IN /\ 0 <= u.x /\ u.x <= CANVAS_W * Unit
         /\ 0 <= u.y /\ u.y <= CANVAS_H * Unit

\* C12 witness: the game loop has pushed a cursor that overlaps another at
\* the high corner against the right edge of the canvas, where it stays at
\* x = 1920.
C12_PushedAgainstEdge ==
  /\ fired.type = "tick"
  /\ \E i \in 1..Len(emitted) :
       /\ emitted[i].ev = "cursor-updated"
       /\ emitted[i].arg[2] = CANVAS_W * Unit
       /\ \E j \in 1..Len(sessions[fired.sid].users) :
            /\ sessions[fired.sid].users[j].id = emitted[i].arg[1]
            /\ sessions[fired.sid].users[j].x = CANVAS_W * Unit
            /\ sessions[fired.sid].users[j].y = CANVAS_H * Unit

\* C13: the ball of every session lies within the canvas with its whole
\* circle: radius <= x <= 1920 - radius and radius <= y <= 1080 - radius.
C13_BallWithinWalls ==
  \A sid \in DOMAIN sessions :
    LET b == sessions[sid].ball
    IN /\ b.radius <= b.x /\ b.x <= CANVAS_W * Unit - b.radius
       /\ b.radius <= b.y /\ b.y <= CANVAS_H * Unit - b.radius

\* C13 witness: a firing of the game loop has stopped the ball, driven down
\* the canvas, at the bottom wall.
C13_BallAtBottomWall ==
  /\ fired.type = "tick"
  /\ fired.sid \in DOMAIN sessions
  /\ sessions[fired.sid].ball.lastTouchedBy # NULL
  /\ sessions[fired.sid].ball.y = CANVAS_H * Unit - sessions[fired.sid].ball.radius

\* C14: every stored board element has numbers within the canvas for its
\* coordinates: 0 <= x <= 1920 and 0 <= y <= 1080.
C14_ElementsWithinCanvas ==
  \A sid \in DOMAIN sessions :
    \A i \in 1..Len(sessions[sid].elements) :
      /\ InCanvas(sessions[sid].elements[i].x, CANVAS_W)
      /\ InCanvas(sessions[sid].elements[i].y, CANVAS_H)

\* the element a create-element with payload FarElement by socket s makes
FarElementStored(s) ==
  [id |-> nextElement, type |-> "note", x |-> Number(CANVAS_W * Unit),
   y |-> Number(0), width |-> FarElement.width,
   height |-> Number(DefaultSize * Unit), createdBy |-> s]

\* C15: a create-element with a type and a numeric position outside the
\* canvas, sent by a socket associated with a session, appends the element
\* with x and y clamped to the canvas (x = 5000 becomes 1920) and emits
\* exactly one element-created, with that element, to the room.
C15_CreateBeyondCanvasIsClamped ==
  [][\A s \in DOMAIN rooms :
       (Associated(s) /\ CreateElement(s, FarElement))
         => /\ sessions'[users[s]].elements
                 = Append(sessions[users[s]].elements, FarElementStored(s))
            /\ emitted' = <<Msg("element-created", InRoom(users[s]), FarElementStored(s))>>]_vars

\* C15 witness: the session holds an element created at (1920, 0) whose
\* element-created has just gone to the creator's room.
C15_ClampedElementCreated ==
  /\ fired.type = "create-element"
  /\ HasEvent("element-created")
  /\ emitted[1].to = InRoom(fired.sid)
  /\ fired.socket \in emitted[1].to
  /\ \E i \in 1..Len(sessions[fired.sid].elements) :
       /\ sessions[fired.sid].elements[i] = emitted[1].arg
       /\ sessions[fired.sid].elements[i].x = Number(CANVAS_W * Unit)
       /\ sessions[fired.sid].elements[i].y = Number(0)

\* C16: a create-element without a type or with a non-numeric x or y, and
\* an update-element whose id matches no element of the session, change no
\* session (no element, no lastActivity), give out no element id and emit
\* nothing.
C16_RejectedRequestsChangeNothing ==
  [][\A s \in DOMAIN rooms :
       /\ \A i \in DOMAIN CreateInputs :
            (BadElement(CreateInputs[i]) /\ CreateElement(s, CreateInputs[i]))
              => sessions' = sessions /\ nextElement' = nextElement /\ emitted' = <<>>
       /\ \A id \in 0..MaxElements, i \in DOMAIN UpdateInputs :
            (/\ Associated(s)
             /\ FindIndex(sessions[users[s]].elements, id) = 0
             /\ UpdateElement(s, id, UpdateInputs[i]))
              => sessions' = sessions /\ emitted' = <<>>]_vars

\* C16 witness: an update-element has been rejected in a session that holds
\* elements and whose last activity lies in the past.
C16_UpdateRejected ==
  /\ fired.type = "update-element"
  /\ fired.sid \in DOMAIN sessions
  /\ sessions[fired.sid].elements # <<>>
  /\ sessions[fired.sid].lastActivity < now
  /\ emitted = <<>>

\* C17: every connection is subscribed to the room of at most one session.
C17_OneRoomPerConnection ==
  \A s \in DOMAIN rooms : Cardinality(rooms[s]) <= 1

\* the sockets subscribed to room sid under the subscriptions r
Subscribers(r, sid) == {s \in DOMAIN r : sid \in r[s]}

\* C18: session-joined and error go to the sender alone; user-joined and
\* user-left go to every subscriber of the room but the socket that caused
\* them; the cursor-updated of a cursor-update goes to every subscriber of
\* the room, the sender among them.
C18_BroadcastScope ==
  [][\A i \in 1..Len(emitted') :
       LET e == emitted'[i]
           sender == fired'.socket
           room == Subscribers(rooms', fired'.sid)
       IN /\ e.ev \in {"session-joined", "error"} => e.to = {sender}
          /\ e.ev \in {"user-joined", "user-left"} => e.to = room \ {sender}
          /\ (e.ev = "cursor-updated" /\ fired'.type = "cursor-update")
               => e.to = room /\ sender \in e.to]_vars

\* C18 witness: a join has been announced to another subscriber of the room
\* and answered to the sender.
C18_JoinAnnouncedToOthers ==
  /\ fired.type = "join-session"
  /\ \E i \in 1..Len(emitted) :
       emitted[i].ev = "session-joined" /\ emitted[i].to = {fired.socket}
  /\ \E i \in 1..Len(emitted) :
       /\ emitted[i].ev = "user-joined"
       /\ emitted[i].to # {}
       /\ fired.socket \notin emitted[i].to

\* socket s is in no roster its cursor-update could refer to
NotInRoster(s) == ~Associated(s) \/ s \notin Ids(sessions[users[s]].users)

\* C19: a cursor-update of a socket that is not in the roster of its session
\* (it has no association, or its session is gone) is answered with a
\* reconnect-required to the sender and changes no roster.
C19_StrangerIsToldToRejoin ==
  [][(fired'.type = "cursor-update" /\ NotInRoster(fired'.socket))
       => /\ \E i \in 1..Len(emitted') :
               /\ emitted'[i].ev = "reconnect-required"
               /\ emitted'[i].to = {fired'.socket}
          /\ \A sid \in DOMAIN sessions :
               sid \in DOMAIN sessions' /\ sessions'[sid].users = sessions[sid].users]_vars

\* C20: an event that arrives without a payload raises no error out of its
\* handler and leaves every session as it was.
C20_AbsentPayloadIsHarmless ==
  [][\A s \in DOMAIN rooms, ev \in PayloadEvents :
       AbsentPayload(s, ev)
         => fired'.type # "uncaughtException" /\ sessions' = sessions]_vars

\* C30: every stored board element has a width within 0..1920 and a height
\* within 0..1080.
C30_SizesWithinCanvas ==
  \A sid \in DOMAIN sessions :
    \A i \in 1..Len(sessions[sid].elements) :
      /\ InCanvas(sessions[sid].elements[i].width, CANVAS_W)
      /\ InCanvas(sessions[sid].elements[i].height, CANVAS_H)

\* the payload {x, y} carries two numbers
Numeric(p) == p[1].typeof = "number" /\ p[2].typeof = "number"

\* socket s is in the roster of the session it is associated with
InRoster(s) == Associated(s) /\ s \in Ids(sessions[users[s]].users)

\* the roster entry of socket s
Entry(ss, s) == ss[users[s]].users[FindIndex(ss[users[s]].users, s)]

\* C27: a cursor-update whose x or y is no number changes no session (no
\* position, no lastUpdate, no lastActivity), no association, no
\* subscription, no timer, and emits nothing.
C27_NonNumericCursorIsIgnored ==
  [][\A s \in DOMAIN rooms, i \in DOMAIN NudgeInputs :
       (~Numeric(NudgeInputs[i]) /\ CursorUpdate(s, NudgeInputs[i][1], NudgeInputs[i][2]))
         => /\ emitted' = <<>>
            /\ UNCHANGED <<sessions, users, rooms, intervals, timeouts, nextElement>>]_vars

\* C27 witness: a cursor-update of a roster member has gone unanswered and
\* left the last activity of its session in the past.
C27_NonNumericIgnored ==
  /\ fired.type = "cursor-update"
  /\ InRoster(fired.socket)
  /\ sessions[fired.sid].lastActivity < now
  /\ emitted = <<>>

\* C28: for a roster member, a cursor-update with numbers stores the clamped
\* position, stamps lastUpdate and emits cursor-updated to the room exactly
\* when the clamped position is more than one pixel from the stored one on
\* the x axis or on the y axis; otherwise the roster entry is unchanged and
\* nothing is emitted; lastActivity is stamped either way.
C28_MinimumDeltaFilter ==
  [][\A s \in DOMAIN rooms, i \in DOMAIN NudgeInputs :
       (/\ InRoster(s)
        /\ Numeric(NudgeInputs[i])
        /\ CursorUpdate(s, NudgeInputs[i][1], NudgeInputs[i][2]))
         => LET toX == Clamp(NudgeInputs[i][1].val, CANVAS_W)
                toY == Clamp(NudgeInputs[i][2].val, CANVAS_H)
                far == \/ Abs(toX - Entry(sessions, s).x) > Unit
                       \/ Abs(toY - Entry(sessions, s).y) > Unit
            IN /\ sessions'[users[s]].lastActivity = now
               /\ far => /\ Entry(sessions', s)
                              = [Entry(sessions, s) EXCEPT !.x = toX, !.y = toY,
                                                           !.lastUpdate = now]
                         /\ emitted' = <<Msg("cursor-updated", InRoom(users[s]),
                                             <<s, toX, toY>>)>>
               /\ ~far => /\ Entry(sessions', s) = Entry(sessions, s)
                          /\ emitted' = <<>>]_vars

\* C28 witness: a cursor-update has been filtered out: the cursor is where
\* the join put it at an earlier time, nothing was emitted, and the session's
\* last activity is now.
C28_SmallMoveFiltered ==
  /\ fired.type = "cursor-update"
  /\ InRoster(fired.socket)
  /\ now > 0
  /\ sessions[fired.sid].lastActivity = now
  /\ Entry(sessions, fired.socket).lastUpdate < now
  /\ Entry(sessions, fired.socket).x = CENTER_X * Unit
  /\ Entry(sessions, fired.socket).y = CENTER_Y * Unit
  /\ emitted = <<>>

\* the ball of a session as checkGoalCollisions finds it in a firing of the
\* game loop
BallAtGoalCheck(session) ==
  checkBallCursorCollisions(updateBallPhysics(session.ball), session.users)

\* C24: a firing of the game loop whose goal check finds the ball in a goal
\* with lastTouchedBy unset pauses play, emits a goal event and schedules a
\* respawn, and leaves scores as they were.
C24_UnattributedGoalPausesWithoutScore ==
  [][\A sid \in DOMAIN sessions :
       (/\ fired'.type = "tick" /\ fired'.sid = sid
        /\ GoalHit(BallAtGoalCheck(sessions[sid])) # 0
        /\ BallAtGoalCheck(sessions[sid]).lastTouchedBy = NULL)
         => /\ sessions'[sid].gameState.inPlay = FALSE
            /\ \E i \in 1..Len(emitted') :
                 emitted'[i].ev = "goal" /\ emitted'[i].to = InRoom(sid)
            /\ Pending(sid)' = Pending(sid) + 1
            /\ sessions'[sid].scores = sessions[sid].scores]_vars

\* C24 witness: a firing of the game loop has paused play on a goal nobody
\* is credited with, with a respawn pending and no score recorded.
C24_UnattributedGoalPaused ==
  /\ fired.type = "tick"
  /\ fired.sid \in DOMAIN sessions
  /\ GoalHit(sessions[fired.sid].ball) # 0
  /\ sessions[fired.sid].ball.lastTouchedBy = NULL
  /\ ~sessions[fired.sid].gameState.inPlay
  /\ HasEvent("goal")
  /\ Pending(fired.sid) > 0
  /\ DOMAIN sessions[fired.sid].scores = {}

\* the cursor of roster entry u is closer to the centre of the ball than
\* ball radius + cursor radius
Near(ball, u) ==
  LET reach == ball.radius + CURSOR_RADIUS * Unit
      dx == ball.x - u.x
      dy == ball.y - u.y
  IN /\ Abs(dx) < reach /\ Abs(dy) < reach
     /\ dx * dx + dy * dy < reach * reach

\* the roster indices of the non-display participants near the ball
Touching(ball, roster) ==
  {i \in 1..Len(roster) : roster[i].userType # "display" /\ Near(ball, roster[i])}

\* the greatest member of a non-empty set of indices
Last(S) == CHOOSE i \in S : \A j \in S : j <= i

\* C29: in a firing of the game loop, with S the non-display participants
\* whose cursor is near the ball once the ball has moved: if S is not empty
\* the ball ends last touched by, and with the velocity given by, the member
\* of S that is last in roster order; if S is empty the collision step leaves
\* the ball as the move left it, whatever displays are near.
C29_LastToucherInRosterOrder ==
  [][\A sid \in DOMAIN sessions :
       (fired'.type = "tick" /\ fired'.sid = sid)
         => LET ball == updateBallPhysics(sessions[sid].ball)
                roster == sessions[sid].users
                S == Touching(ball, roster)
                after == sessions'[sid].ball
            IN /\ S # {} => /\ after.lastTouchedBy = roster[Last(S)].id
                            /\ after = Kick(ball, roster[Last(S)])
               /\ S = {} => after = ball
               /\ \A i \in 1..Len(roster) :
                    (roster[i].userType = "display"
                       /\ after.lastTouchedBy # sessions[sid].ball.lastTouchedBy)
                      => after.lastTouchedBy # roster[i].id]_vars

\* C29 witness: a firing of the game loop has found two non-display cursors
\* near the ball and credited the later one of the roster.
C29_LaterOfTwoCredited ==
  /\ fired.type = "tick"
  /\ fired.sid \in DOMAIN sessions
  /\ LET roster == sessions[fired.sid].users
         ball == sessions[fired.sid].ball
     IN \E i, j \in 1..Len(roster) :
          /\ i < j
          /\ {i, j} \subseteq Touching(ball, roster)
          /\ ball.lastTouchedBy = roster[j].id
          /\ ball.lastTouchedBy # roster[i].id
          /\ ball.velocityX # 0

\* the roster indices of the non-display participants
NonDisplay(roster) == {i \in 1..Len(roster) : roster[i].userType # "display"}

\* the cursors of u and v are less than two cursor radii (30 pixels) apart
Overlapping(u, v) ==
  LET reach == CURSOR_RADIUS * 2 * Unit
  IN /\ Abs(u.x - v.x) < reach /\ Abs(u.y - v.y) < reach
     /\ (u.x - v.x) * (u.x - v.x) + (u.y - v.y) * (u.y - v.y) < reach * reach

\* the square of the distance between two cursors no further apart than
\* a few cursor radii
SquaredGap(u, v) == (u.x - v.x) * (u.x - v.x) + (u.y - v.y) * (u.y - v.y)

\* C21: a firing of the game loop that finds exactly two non-display
\* participants, less than 30 pixels apart (the same point included), moves
\* them strictly further apart, keeps both within the canvas and emits a
\* cursor-updated with the new position for each of them.
C21_OverlappingCursorsArePushedApart ==
  [][\A sid \in DOMAIN sessions :
       (/\ fired'.type = "tick" /\ fired'.sid = sid
        /\ Cardinality(NonDisplay(sessions[sid].users)) = 2
        /\ \A i, j \in NonDisplay(sessions[sid].users) :
             Overlapping(sessions[sid].users[i], sessions[sid].users[j]))
         => \A i, j \in NonDisplay(sessions[sid].users) :
              LET u == sessions'[sid].users[i]
                  v == sessions'[sid].users[j]
              IN /\ i # j => SquaredGap(u, v) > SquaredGap(sessions[sid].users[i],
                                                           sessions[sid].users[j])
                 /\ 0 <= u.x /\ u.x <= CANVAS_W * Unit
                 /\ 0 <= u.y /\ u.y <= CANVAS_H * Unit
                 /\ \E k \in 1..Len(emitted') :
                      /\ emitted'[k].ev = "cursor-updated"
                      /\ emitted'[k].arg = <<u.id, u.x, u.y>>]_vars

\* C25: a participant who joins a session whose roster holds n participants
\* gets the colour colors[n mod colors.length].
C25_ColourFollowsRosterSize ==
  [][\A s \in DOMAIN rooms, sid \in DOMAIN sessions :
       (fired'.type = "join-session" /\ fired'.socket = s /\ fired'.sid = sid)
         => LET n == Len(sessions[sid].users)
                roster == sessions'[sid].users
            IN roster[Len(roster)].color = colors[(n % Len(colors)) + 1]]_vars

\* the events that belong to the room of their sender, or of their game loop
RoomEvents ==
  {"cursor-update", "create-element", "update-element", "delete-element", "tick"}

\* socket s is subscribed to rooms, none of which is A
SubscribedElsewhere(s, A) == rooms[s] # {} /\ A \notin rooms[s]

\* C23: a cursor-update, create-element, update-element, delete-element or
\* firing of the game loop of session A leaves every other session (roster,
\* elements, ball, scores, gameState, lastActivity) as it was and emits
\* nothing to a connection subscribed to other rooms only.
C23_RoomsAreIndependent ==
  [][\A A \in DOMAIN sessions :
       (fired'.type \in RoomEvents /\ fired'.sid = A)
         => /\ \A B \in DOMAIN sessions \ {A} :
                 B \in DOMAIN sessions' /\ sessions'[B] = sessions[B]
            /\ \A k \in 1..Len(emitted') :
                 \A s \in emitted'[k].to : ~SubscribedElsewhere(s, A)]_vars

\* C23 witness: an event of one room has been emitted while another room
\* has a roster, elements and a subscriber of its own.
C23_OtherRoomUntouched ==
  /\ fired.type \in RoomEvents
  /\ emitted # <<>>
  /\ \E B \in DOMAIN sessions \ {fired.sid} :
       /\ sessions[B].users # <<>>
       /\ sessions[B].elements # <<>>
       /\ \E s \in DOMAIN rooms : rooms[s] = {B}

\* C26: a join-session to a session that is there puts the joiner at the
\* centre of the canvas as the last entry of the roster, the other entries
\* keeping their order, and sends the sender a session-joined whose users are
\* the roster after the join, whose elements are the elements of the session
\* and whose user is the joiner.
C26_JoinAppendsAndSnapshots ==
  [][\A s \in DOMAIN rooms, sid \in DOMAIN sessions :
       (fired'.type = "join-session" /\ fired'.socket = s /\ fired'.sid = sid)
         => LET roster == sessions'[sid].users
                joiner == roster[Len(roster)]
            IN /\ roster = Append(Without(sessions[sid].users, s), joiner)
               /\ joiner.id = s
               /\ joiner.x = CENTER_X * Unit /\ joiner.y = CENTER_Y * Unit
               /\ \E k \in 1..Len(emitted') :
                    /\ emitted'[k].ev = "session-joined"
                    /\ emitted'[k].to = {s}
                    /\ emitted'[k].arg.users = roster
                    /\ emitted'[k].arg.elements = sessions[sid].elements
                    /\ emitted'[k].arg.elements = sessions'[sid].elements
                    /\ emitted'[k].arg.user = joiner]_vars

\* C26 witness: a connection has joined a session that holds elements and
\* another participant who has moved away from the centre, and has been sent
\* both.
C26_JoinedARoomInUse ==
  /\ fired.type = "join-session"
  /\ fired.sid \in DOMAIN sessions
  /\ Len(sessions[fired.sid].users) >= 2
  /\ sessions[fired.sid].users[1].x # CENTER_X * Unit
  /\ sessions[fired.sid].elements # <<>>
  /\ \E k \in 1..Len(emitted) :
       /\ emitted[k].ev = "session-joined"
       /\ Len(emitted[k].arg.users) >= 2
       /\ emitted[k].arg.elements # <<>>

\* C31: no roster holds two entries with the same id.
C31_RosterIdsAreUnique ==
  \A sid \in DOMAIN sessions :
    \A i, j \in 1..Len(sessions[sid].users) :
      sessions[sid].users[i].id = sessions[sid].users[j].id => i = j

\* C31 witness: a connection that had joined the session before (it created
\* an element there) has joined it again, in the other role than the
\* participant before it, and is in the roster.
C31_RejoinedOnce ==
  /\ fired.type = "join-session"
  /\ fired.sid \in DOMAIN sessions
  /\ \E i \in 1..Len(sessions[fired.sid].elements) :
       sessions[fired.sid].elements[i].createdBy = fired.socket
  /\ LET roster == sessions[fired.sid].users
     IN /\ Len(roster) = 2
        /\ roster[2].id = fired.socket
        /\ roster[2].userType # roster[1].userType

\* the sessions whose roster holds an entry of socket s
RostersOf(s) == {sid \in DOMAIN sessions : s \in Ids(sessions[sid].users)}

\* C32: a socket is in the roster of at most one session, and every roster
\* entry's socket is associated with the session of that roster.
C32_OneRosterPerConnection ==
  \A sid \in DOMAIN sessions :
    \A i \in 1..Len(sessions[sid].users) :
      LET s == sessions[sid].users[i].id
      IN /\ RostersOf(s) = {sid}
         /\ s \in DOMAIN users /\ users[s] = sid

\* C33: a socket associated with a session that is in the Map is in the
\* roster of that session, and no reconnect-required is ever emitted.
C33_AssociatedIsInRoster ==
  /\ \A s \in DOMAIN users :
       users[s] \in DOMAIN sessions => s \in Ids(sessions[users[s]].users)
  /\ ~HasEvent("reconnect-required")

\* C33 witness: a socket that joined one session and then another has had
\* its cursor-update served in the session it is associated with.
C33_ServedAfterSwitchingRooms ==
  /\ fired.type = "cursor-update"
  /\ InRoster(fired.socket)
  /\ RostersOf(fired.socket) # {users[fired.socket]}
  /\ HasEvent("cursor-updated")

\* C34: every association of the users Map refers to a session that is in
\* the sessions Map.
C34_AssociationsReferToSessions ==
  \A s \in DOMAIN users : users[s] \in DOMAIN sessions

\* C36: the lastTouchedBy of every ball is unset or the id of a non-display
\* entry of the roster of its session.
C36_LastToucherIsPresent ==
  \A sid \in DOMAIN sessions :
    \/ sessions[sid].ball.lastTouchedBy = NULL
    \/ \E i \in 1..Len(sessions[sid].users) :
         /\ sessions[sid].users[i].id = sessions[sid].ball.lastTouchedBy
         /\ sessions[sid].users[i].userType # "display"

\* C35: the element a create-element stores has the sender as its createdBy,
\* and an element that stays in its session keeps its createdBy through
\* every step (its id is what identifies it).
C35_AuthorshipIsImmutable ==
  [][\A sid \in DOMAIN sessions :
       sid \in DOMAIN sessions'
         => LET old == sessions[sid].elements
                new == sessions'[sid].elements
            IN /\ \A i \in 1..Len(old), j \in 1..Len(new) :
                    old[i].id = new[j].id => old[i].createdBy = new[j].createdBy
               /\ (fired'.type = "create-element" /\ Len(new) > Len(old))
                    => new[Len(new)].createdBy = fired'.socket]_vars

\* the step that ends in the primed state has processed an event of the
\* session fired'.sid: a join that found the session, a cursor-update that
\* moved a cursor, an element event that was broadcast, or the disconnect of
\* a socket associated with the session
Processed ==
  /\ fired'.sid \in DOMAIN sessions'
  /\ \/ fired'.type \in {"join-session", "disconnect"}
     \/ /\ fired'.type \in {"cursor-update", "create-element", "update-element",
                            "delete-element"}
        /\ emitted' # <<>>
        /\ emitted'[1].ev # "reconnect-required"

\* C37: every processed event of a session stamps its lastActivity with the
\* time of processing, and the cleanup removes no session that a roster
\* member joined, or moved its cursor in, within the last 24 hours.
C37_ProcessedEventsKeepRoomAlive ==
  [][/\ Processed => sessions'[fired'.sid].lastActivity = now
     /\ fired'.type = "cleanup"
          => \A sid \in DOMAIN sessions \ DOMAIN sessions' :
               \A i \in 1..Len(sessions[sid].users) :
                 now - sessions[sid].users[i].lastUpdate > SESSION_TTL]_vars

\* C38: a POST /api/sessions that is answered with an error adds no session
\* to the Map and starts no game loop.
C38_FailedCreationLeavesNothing ==
  [][fired'.type = "create-failed"
       => /\ DOMAIN sessions' = DOMAIN sessions
          /\ intervals' = intervals]_vars

\* how many times id occurs in a sequence of ids
Occurrences(ids, id) == Cardinality({i \in 1..Len(ids) : ids[i] = id})

\* C39: once the events emitted so far are delivered, the users state of a
\* connected display that is in the roster of its session holds every id as
\* many times as that roster does.
C39_DisplayMirrorsRoster ==
  emitted = <<>>
    => \A d \in DOMAIN display :
         (InRoster(d) /\ Entry(sessions, d).userType = "display")
           => \A id \in 1..MaxSockets :
                Occurrences(display[d], id)
                  = Occurrences([i \in 1..Len(sessions[users[d]].users) |->
                                   sessions[users[d]].users[i].id], id)

=============================================================================
